---- MODULE Spec2Model ----
(***************************************************************************)
(* A model of the codicefiscale library (src/src/lib.rs, src/src/utils.rs) *)
(* and of the `generate` command of its binary (src/src/main.rs).          *)
(*                                                                         *)
(* A Rust `char` is a one-character string, a `String` / `&str` /          *)
(* `Vec<char>` is a sequence of such strings.  Every text of the model is  *)
(* ASCII, so the byte offsets of `char_indices` are the character indices  *)
(* (0-based in the source, 1-based here).  A panic (a failed `unwrap`, a   *)
(* failed `assert_eq!`) is the value PANIC, which no text equals.          *)
(***************************************************************************)
EXTENDS Integers, Sequences, FiniteSets, TLC

VARIABLES pc, name, surname, sex, birth_nation, birth_city, birth_date,
          substitution_depth, code, homocodic_code, fragment

vars == <<pc, name, surname, sex, birth_nation, birth_city, birth_date,
          substitution_depth, code, homocodic_code, fragment>>

(***************************************************************************)
(* Bounds of the model.                                                    *)
(***************************************************************************)
\* longest text handed to the name / surname encoders in SpecNames
MaxNameLen == 5
\* longest variable tail of a code handed to the homocodic transform
MaxTail == 4
\* largest substitution depth handed to the homocodic transform
MaxDepth == 8
\* largest substitution depth of the `generate` command in Spec
MaxCliDepth == 1

(***************************************************************************)
(* Characters and the standard-library operations the source calls.        *)
(***************************************************************************)
PANIC == <<"panic!">>

ALPHABET_VEC ==
    << "A", "B", "C", "D", "E", "F", "G", "H", "I", "J", "K", "L", "M",
       "N", "O", "P", "Q", "R", "S", "T", "U", "V", "W", "X", "Y", "Z" >>

LOWERCASE ==
    << "a", "b", "c", "d", "e", "f", "g", "h", "i", "j", "k", "l", "m",
       "n", "o", "p", "q", "r", "s", "t", "u", "v", "w", "x", "y", "z" >>

DIGITS == << "0", "1", "2", "3", "4", "5", "6", "7", "8", "9" >>

Range(s) == { s[i] : i \in DOMAIN s }

\* the 0-based position of c in the sequence s, or -1 when c is not in it
\* (Err of binary_search, None of HashMap::get and of to_digit)
IndexOf(s, c) ==
    IF c \in Range(s) THEN (CHOOSE i \in DOMAIN s : s[i] = c) - 1 ELSE 0 - 1

\* char::to_ascii_uppercase
to_ascii_uppercase(c) ==
    IF c \in Range(LOWERCASE) THEN ALPHABET_VEC[IndexOf(LOWERCASE, c) + 1] ELSE c

\* char::to_ascii_lowercase
to_ascii_lowercase(c) ==
    IF c \in Range(ALPHABET_VEC) THEN LOWERCASE[IndexOf(ALPHABET_VEC, c) + 1] ELSE c

\* char::is_ascii_digit
is_ascii_digit(c) == c \in Range(DIGITS)

\* char::to_digit(10) of an ASCII digit
to_digit(c) == IndexOf(DIGITS, c)

\* str::to_ascii_uppercase
str_to_ascii_uppercase(s) == [i \in DOMAIN s |-> to_ascii_uppercase(s[i])]

\* <[char]>::chunks(n): consecutive slices of n elements, the last one shorter
chunks(s, n) ==
    [k \in 1..((Len(s) + n - 1) \div n) |->
        SubSeq(s, (k - 1) * n + 1, IF k * n < Len(s) THEN k * n ELSE Len(s))]

\* format!("{:f<w}", s): s, padded on the right with f to at least w characters
pad_right(s, f, w) == s \o [i \in 1..(w - Len(s)) |-> f]

\* format!("{:f>w}", s): s, padded on the left with f to at least w characters
pad_left(s, f, w) == [i \in 1..(w - Len(s)) |-> f] \o s

\* u32::to_string
RECURSIVE nat_to_string(_)
nat_to_string(n) ==
    IF n < 10 THEN << DIGITS[n + 1] >>
    ELSE nat_to_string(n \div 10) \o << DIGITS[(n % 10) + 1] >>

\* i32::to_string
int_to_string(n) == IF n < 0 THEN << "-" >> \o nat_to_string(0 - n) ELSE nat_to_string(n)

(***************************************************************************)
(* src/src/lib.rs: the lookup tables.                                      *)
(***************************************************************************)
ODD_LOOKUP_TABLE ==
    ("0" :> 1) @@ ("1" :> 0) @@ ("2" :> 5) @@ ("3" :> 7) @@ ("4" :> 9) @@
    ("5" :> 13) @@ ("6" :> 15) @@ ("7" :> 17) @@ ("8" :> 19) @@ ("9" :> 21) @@
    ("A" :> 1) @@ ("B" :> 0) @@ ("C" :> 5) @@ ("D" :> 7) @@ ("E" :> 9) @@
    ("F" :> 13) @@ ("G" :> 15) @@ ("H" :> 17) @@ ("I" :> 19) @@ ("J" :> 21) @@
    ("K" :> 2) @@ ("L" :> 4) @@ ("M" :> 18) @@ ("N" :> 20) @@ ("O" :> 11) @@
    ("P" :> 3) @@ ("Q" :> 6) @@ ("R" :> 8) @@ ("S" :> 12) @@ ("T" :> 14) @@
    ("U" :> 16) @@ ("V" :> 10) @@ ("W" :> 22) @@ ("X" :> 25) @@ ("Y" :> 24) @@
    ("Z" :> 23)

HOMOCODIC_LOOKUP_TABLE ==
    (0 :> "L") @@ (1 :> "M") @@ (2 :> "N") @@ (3 :> "P") @@ (4 :> "Q") @@
    (5 :> "R") @@ (6 :> "S") @@ (7 :> "T") @@ (8 :> "U") @@ (9 :> "V")

MONTH_LETTERS == << "A", "B", "C", "D", "E", "H", "L", "M", "P", "R", "S", "T" >>

(***************************************************************************)
(* src/src/utils.rs                                                        *)
(***************************************************************************)
VOWELS == { "a", "e", "i", "o", "u" }

is_vowel(c) == to_ascii_lowercase(c) \in VOWELS

is_consonant(c) == ~ is_vowel(c)

(***************************************************************************)
(* src/src/lib.rs: the checksum.                                           *)
(***************************************************************************)
\* the characters of s at the 0-based indices of the given parity (0 or 1)
chars_at_parity(s, parity) ==
    LET RECURSIVE pick(_)
        pick(k) == IF k > Len(s) THEN << >>
                   ELSE (IF (k - 1) % 2 = parity THEN << s[k] >> ELSE << >>) \o pick(k + 1)
    IN  pick(1)

\* a value below 0 stands for the None / Err on which `unwrap` panics
even_characters_lookup(chars) ==
    [i \in DOMAIN chars |->
        LET c == to_ascii_uppercase(chars[i])
        IN  IF is_ascii_digit(c) THEN to_digit(c) ELSE IndexOf(ALPHABET_VEC, c)]

odd_characters_lookup(chars) ==
    [i \in DOMAIN chars |->
        LET c == to_ascii_uppercase(chars[i])
        IN  IF c \in DOMAIN ODD_LOOKUP_TABLE THEN ODD_LOOKUP_TABLE[c] ELSE 0 - 1]

RECURSIVE sum(_)
sum(s) == IF s = << >> THEN 0 ELSE Head(s) + sum(Tail(s))

unwrap_fails(values) == \E i \in DOMAIN values : values[i] < 0

\* mutant: the two parities are exchanged (the indices taken as 1-based)
get_control_character_one_based(preliminary_code) ==
    LET even_characters == chars_at_parity(preliminary_code, 0)
        even_values == even_characters_lookup(even_characters)
        odd_characters == chars_at_parity(preliminary_code, 1)
        odd_values == odd_characters_lookup(odd_characters)
    IN  IF unwrap_fails(even_values) \/ unwrap_fails(odd_values) THEN PANIC
        ELSE LET code_sum == (sum(even_values) + sum(odd_values)) % 26
             IN  << ALPHABET_VEC[code_sum + 1] >>

\* the control character as a one-character text, or PANIC
get_control_character(preliminary_code) ==
    LET even_characters == chars_at_parity(preliminary_code, 1)
        even_values == even_characters_lookup(even_characters)
        odd_characters == chars_at_parity(preliminary_code, 0)
        odd_values == odd_characters_lookup(odd_characters)
    IN  IF unwrap_fails(even_values) \/ unwrap_fails(odd_values) THEN PANIC
        ELSE LET code_sum == (sum(even_values) + sum(odd_values)) % 26
             IN  << ALPHABET_VEC[code_sum + 1] >>

(***************************************************************************)
(* src/src/lib.rs: the homocodic transform.                                *)
(***************************************************************************)
Reverse(s) == [i \in DOMAIN s |-> s[Len(s) + 1 - i]]

\* the loop of generate_homocodic_preliminary_code over the reversed text:
\* the characters pushed, given the characters left and the depth left
RECURSIVE homocodic_loop(_, _)
homocodic_loop(rev_chars, depth_left) ==
    IF rev_chars = << >> THEN << >>
    ELSE LET c == Head(rev_chars)
         IN  IF is_ascii_digit(c) /\ depth_left # 0
             THEN << HOMOCODIC_LOOKUP_TABLE[to_digit(c)] >>
                      \o homocodic_loop(Tail(rev_chars), depth_left - 1)
             ELSE << c >> \o homocodic_loop(Tail(rev_chars), depth_left)

\* mutant: every character, digit or not, uses up one unit of the depth
RECURSIVE homocodic_loop_any_char(_, _)
homocodic_loop_any_char(rev_chars, depth_left) ==
    IF rev_chars = << >> THEN << >>
    ELSE LET c == Head(rev_chars)
         IN  IF depth_left # 0
             THEN << IF is_ascii_digit(c) THEN HOMOCODIC_LOOKUP_TABLE[to_digit(c)] ELSE c >>
                      \o homocodic_loop_any_char(Tail(rev_chars), depth_left - 1)
             ELSE << c >> \o homocodic_loop_any_char(Tail(rev_chars), depth_left)

generate_homocodic_preliminary_code_any_char(preliminary_code, depth) ==
    IF depth = 0 THEN preliminary_code
    ELSE Reverse(homocodic_loop_any_char(Reverse(preliminary_code), depth))

\* mutant: the text is scanned from its first character (no `.rev()`)
generate_homocodic_preliminary_code_forward(preliminary_code, depth) ==
    IF depth = 0 THEN preliminary_code
    ELSE homocodic_loop(preliminary_code, depth)

generate_homocodic_preliminary_code(preliminary_code, depth) ==
    IF depth = 0 THEN preliminary_code
    ELSE Reverse(homocodic_loop(Reverse(preliminary_code), depth))

\* mutant: the filter drops index 14, the last character of the payload
without_index_14(text) ==
    LET RECURSIVE keep(_)
        keep(k) == IF k > Len(text) THEN << >>
                   ELSE (IF k - 1 # 14 THEN << text[k] >> ELSE << >>) \o keep(k + 1)
    IN  keep(1)

\* code.char_indices().filter(|c| c.0 != 15).map(|c| c.1).collect()
without_index_15(text) ==
    LET RECURSIVE keep(_)
        keep(k) == IF k > Len(text) THEN << >>
                   ELSE (IF k - 1 # 15 THEN << text[k] >> ELSE << >>) \o keep(k + 1)
    IN  keep(1)

\* mutant: the control character of the input is kept, not recomputed
generate_homocodic_from_code_stale_check(text, depth) ==
    LET preliminary_code ==
            generate_homocodic_preliminary_code(without_index_15(text), depth)
        check_code == get_control_character(preliminary_code)
    IN  IF check_code = PANIC THEN PANIC
        ELSE preliminary_code \o (IF Len(text) >= 16 THEN << text[16] >> ELSE check_code)

generate_homocodic_from_code(text, depth) ==
    LET preliminary_code ==
            generate_homocodic_preliminary_code(without_index_15(text), depth)
        check_code == get_control_character(preliminary_code)
    IN  IF check_code = PANIC THEN PANIC ELSE preliminary_code \o check_code

(***************************************************************************)
(* src/src/lib.rs: the fragments of the code.                              *)
(***************************************************************************)
get_month_letter(month) == MONTH_LETTERS[month]

\* mutant: the slice [2..4] is forgotten
get_year_whole(year) ==
    IF Len(year) # 4 THEN PANIC ELSE year

get_year(year) ==
    IF Len(year) # 4 THEN PANIC ELSE SubSeq(year, 3, 4)

\* mutant: the offset is given to the other sex
get_day_swapped(day, s) == IF s = "M" THEN day + 40 ELSE day

get_day(day, s) == IF s = "M" THEN day ELSE day + 40

\* mutant: `first().unwrap_or_default()`, an empty text gives an empty chunk
extract_surname_letters_or_default(text) ==
    LET name_consonants == SelectSeq(text, is_consonant)
        name_vowels == SelectSeq(text, is_vowel)
        name_chunks == chunks(name_consonants \o name_vowels, 3)
    IN  str_to_ascii_uppercase(
            pad_right(IF name_chunks = << >> THEN << >> ELSE name_chunks[1], "X", 3))

extract_surname_letters(text) ==
    LET name_consonants == SelectSeq(text, is_consonant)
        name_vowels == SelectSeq(text, is_vowel)
        name_chunks == chunks(name_consonants \o name_vowels, 3)
    IN  IF name_chunks = << >> THEN PANIC
        ELSE str_to_ascii_uppercase(pad_right(name_chunks[1], "X", 3))

\* mutant: the first three consonants of a long name
extract_name_letters_first_three(text) ==
    LET name_consonants == SelectSeq(text, is_consonant)
        name_vowels == SelectSeq(text, is_vowel)
    IN  IF Len(name_consonants) <= 3
        THEN LET name_chunks == chunks(name_consonants \o name_vowels, 3)
             IN  IF name_chunks = << >> THEN PANIC
                 ELSE str_to_ascii_uppercase(pad_right(name_chunks[1], "X", 3))
        ELSE str_to_ascii_uppercase(
                 << name_consonants[1], name_consonants[2], name_consonants[3] >>)

extract_name_letters(text) ==
    LET name_consonants == SelectSeq(text, is_consonant)
        name_vowels == SelectSeq(text, is_vowel)
    IN  IF Len(name_consonants) <= 3
        THEN LET name_chunks == chunks(name_consonants \o name_vowels, 3)
             IN  IF name_chunks = << >> THEN PANIC
                 ELSE str_to_ascii_uppercase(pad_right(name_chunks[1], "X", 3))
        ELSE str_to_ascii_uppercase(
                 << name_consonants[1], name_consonants[3], name_consonants[4] >>)

(***************************************************************************)
(* src/src/lib.rs: generate_code.  A nation and a city are records with    *)
(* their code; a date is a record of year, month and day.                  *)
(***************************************************************************)
\* mutant: the day is formatted as "{day_code}", without the width
generate_code_unpadded(n, sn, s, nation, city, date) ==
    LET name_code == extract_name_letters(n)
        surname_code == extract_surname_letters(sn)
        year_code == get_year(int_to_string(date.year))
        month_code == << get_month_letter(date.month) >>
        day_code == get_day(date.day, s)
        location_code == IF nation.nation_code = << "0", "0", "0", "0" >>
                         THEN city.city_code
                         ELSE nation.nation_code
    IN  IF name_code = PANIC \/ surname_code = PANIC \/ year_code = PANIC THEN PANIC
        ELSE LET preliminary_code ==
                     surname_code \o name_code \o year_code \o month_code
                         \o nat_to_string(day_code) \o location_code
                 check_code == get_control_character(preliminary_code)
             IN  IF check_code = PANIC THEN PANIC ELSE preliminary_code \o check_code

\* mutant: the test of the sentinel is inverted
generate_code_inverted_sentinel(n, sn, s, nation, city, date) ==
    LET name_code == extract_name_letters(n)
        surname_code == extract_surname_letters(sn)
        year_code == get_year(int_to_string(date.year))
        month_code == << get_month_letter(date.month) >>
        day_code == get_day(date.day, s)
        location_code == IF nation.nation_code # << "0", "0", "0", "0" >>
                         THEN city.city_code
                         ELSE nation.nation_code
    IN  IF name_code = PANIC \/ surname_code = PANIC \/ year_code = PANIC THEN PANIC
        ELSE LET preliminary_code ==
                     surname_code \o name_code \o year_code \o month_code
                         \o pad_left(nat_to_string(day_code), "0", 2) \o location_code
                 check_code == get_control_character(preliminary_code)
             IN  IF check_code = PANIC THEN PANIC ELSE preliminary_code \o check_code

generate_code(n, sn, s, nation, city, date) ==
    LET name_code == extract_name_letters(n)
        surname_code == extract_surname_letters(sn)
        year_code == get_year(int_to_string(date.year))
        month_code == << get_month_letter(date.month) >>
        day_code == get_day(date.day, s)
        location_code == IF nation.nation_code = << "0", "0", "0", "0" >>
                         THEN city.city_code
                         ELSE nation.nation_code
    IN  IF name_code = PANIC \/ surname_code = PANIC \/ year_code = PANIC THEN PANIC
        ELSE LET preliminary_code ==
                     surname_code \o name_code \o year_code \o month_code
                         \o pad_left(nat_to_string(day_code), "0", 2) \o location_code
                 check_code == get_control_character(preliminary_code)
             IN  IF check_code = PANIC THEN PANIC ELSE preliminary_code \o check_code

(***************************************************************************)
(* The inputs.                                                             *)
(***************************************************************************)
\* Option<u32>: None is the empty set, Some(d) is {d}
None == { }

Some(d) == { d }

Unwrap(opt) == CHOOSE d \in opt : TRUE

\* chrono::NaiveDate holds only dates of the proleptic Gregorian calendar
is_leap_year(y) == y % 4 = 0 /\ (y % 100 # 0 \/ y % 400 = 0)

days_in_month(y, m) ==
    IF m = 2 THEN (IF is_leap_year(y) THEN 29 ELSE 28)
    ELSE IF m \in { 4, 6, 9, 11 } THEN 30 ELSE 31

NAMES ==
    { << "M", "a", "r", "i", "o" >>,
      << "R", "O", "B", "E", "R", "T", "O" >>,
      << >> }

SURNAMES == { << "R", "o", "s", "s", "i" >>, << "F", "o" >> }

SEXES == { "M", "F" }

NATIONS ==
    { [nation_code |-> << "0", "0", "0", "0" >>],
      [nation_code |-> << "Z", "4", "0", "4" >>] }

CITIES ==
    { [city_code |-> << "H", "5", "0", "1" >>],
      [city_code |-> << "F", "2", "0", "5" >>] }

YEARS == { 0 - 753, 999, 1000, 1984, 9999, 10000 }

DAYS == { 1, 9, 10, 31 }

DATES ==
    { d \in [year : YEARS, month : 1..12, day : DAYS] :
        d.day <= days_in_month(d.year, d.month) }

CLI_DEPTHS == { None } \cup { Some(d) : d \in 0..MaxCliDepth }

\* every text over the alphabet with lo..hi characters
Texts(alphabet, lo, hi) ==
    UNION { [1..n -> alphabet] : n \in lo..hi }

NAME_ALPHABET == { "r", "B", "t", "E", "-" }

\* the fixed first 12 characters of the codes handed to the transform
HEADS ==
    { << "R", "S", "S", "M", "R", "A", "8", "5", "T", "1", "0", "A" >>,
      << "B", "N", "C", "L", "G", "U", "U", "R", "A", "M", "L", "Z" >>,
      << "r", "s", "s", "m", "r", "a", "8", "5", "t", "4", "1", "z" >> }

TAIL_ALPHABET == { "0", "9", "H", "-" }

\* the 15-character payloads over the heads
PAYLOADS == { h \o t : h \in HEADS, t \in Texts(TAIL_ALPHABET, 3, 3) }

\* texts of 14 characters and more, and the payloads with their control character
CODES ==
    { h \o t : h \in HEADS, t \in Texts(TAIL_ALPHABET, 2, MaxTail) }
    \cup { p \o get_control_character(p) :
             p \in { q \in PAYLOADS : get_control_character(q) # PANIC } }

(***************************************************************************)
(* src/src/main.rs: the `generate` command.  The arguments are parsed      *)
(* (Init), then generate() computes the code and, when a depth is given,   *)
(* its homocodic version.                                                  *)
(***************************************************************************)
NoText == << >>

Init ==
    /\ pc = "start"
    /\ name \in NAMES
    /\ surname \in SURNAMES
    /\ sex \in SEXES
    /\ birth_nation \in NATIONS
    /\ birth_city \in CITIES
    /\ birth_date \in DATES
    /\ substitution_depth \in CLI_DEPTHS
    /\ code = NoText
    /\ homocodic_code = NoText
    /\ fragment = NoText

generate ==
    /\ pc = "start"
    /\ LET c == generate_code(name, surname, sex, birth_nation, birth_city, birth_date)
       IN  IF c = PANIC
           THEN /\ pc' = "panicked"
                /\ UNCHANGED << code, homocodic_code >>
           ELSE /\ code' = c
                /\ IF substitution_depth = None
                   THEN /\ pc' = "done"
                        /\ UNCHANGED homocodic_code
                   ELSE LET h == generate_homocodic_from_code(c, Unwrap(substitution_depth))
                        IN  IF h = PANIC
                            THEN /\ pc' = "panicked"
                                 /\ UNCHANGED homocodic_code
                            ELSE /\ pc' = "done"
                                 /\ homocodic_code' = h
    /\ UNCHANGED << name, surname, sex, birth_nation, birth_city, birth_date,
                    substitution_depth, fragment >>

Next == generate

Spec == Init /\ [][Next]_vars

(***************************************************************************)
(* The library's generate_homocodic_from_code on any text.                 *)
(***************************************************************************)
InitHomocodic ==
    /\ pc = "start"
    /\ name = NoText
    /\ surname = NoText
    /\ sex = "M"
    /\ birth_nation = [nation_code |-> NoText]
    /\ birth_city = [city_code |-> NoText]
    /\ birth_date = [year |-> 1, month |-> 1, day |-> 1]
    /\ substitution_depth \in { Some(d) : d \in 0..MaxDepth }
    /\ code \in CODES
    /\ homocodic_code = NoText
    /\ fragment = NoText

homocodic_from_code ==
    /\ pc = "start"
    /\ LET h == generate_homocodic_from_code(code, Unwrap(substitution_depth))
       IN  IF h = PANIC
           THEN /\ pc' = "panicked"
                /\ UNCHANGED homocodic_code
           ELSE /\ pc' = "done"
                /\ homocodic_code' = h
    /\ UNCHANGED << name, surname, sex, birth_nation, birth_city, birth_date,
                    substitution_depth, code, fragment >>

NextHomocodic == homocodic_from_code

SpecHomocodic == InitHomocodic /\ [][NextHomocodic]_vars

(***************************************************************************)
(* The name and surname encoders on any text.                              *)
(***************************************************************************)
InitNames ==
    /\ pc = "start"
    /\ name \in Texts(NAME_ALPHABET, 0, MaxNameLen)
    /\ surname = name
    /\ sex = "M"
    /\ birth_nation = [nation_code |-> NoText]
    /\ birth_city = [city_code |-> NoText]
    /\ birth_date = [year |-> 1, month |-> 1, day |-> 1]
    /\ substitution_depth = None
    /\ code = NoText
    /\ homocodic_code = NoText
    /\ fragment = NoText

name_letters ==
    /\ pc = "start"
    /\ LET f == extract_name_letters(name)
       IN  IF f = PANIC
           THEN pc' = "name_panicked" /\ UNCHANGED fragment
           ELSE pc' = "name_done" /\ fragment' = f
    /\ UNCHANGED << name, surname, sex, birth_nation, birth_city, birth_date,
                    substitution_depth, code, homocodic_code >>

surname_letters ==
    /\ pc = "start"
    /\ LET f == extract_surname_letters(surname)
       IN  IF f = PANIC
           THEN pc' = "surname_panicked" /\ UNCHANGED fragment
           ELSE pc' = "surname_done" /\ fragment' = f
    /\ UNCHANGED << name, surname, sex, birth_nation, birth_city, birth_date,
                    substitution_depth, code, homocodic_code >>

NextNames == name_letters \/ surname_letters

SpecNames == InitNames /\ [][NextNames]_vars

(***************************************************************************)
(* What the claims speak of.                                               *)
(***************************************************************************)
IsAsciiLetter(c) == c \in Range(ALPHABET_VEC) \cup Range(LOWERCASE)

IsUpperAlnum(c) == c \in Range(ALPHABET_VEC) \cup Range(DIGITS)

AllLetters(text) == \A i \in DOMAIN text : IsAsciiLetter(text[i])

\* an ASCII-letter name: one letter at least, and only letters
IsLetterName(text) == text # NoText /\ AllLetters(text)

AllUpperAlnum(text) == \A i \in DOMAIN text : IsUpperAlnum(text[i])

IsLocationCode(text) == Len(text) = 4 /\ AllUpperAlnum(text)

IsGregorianDate(date) ==
    /\ date.month \in 1..12
    /\ date.day \in 1..days_in_month(date.year, date.month)

\* generate_code has returned a code
Generated == pc # "start" /\ code # NoText

\* the inputs C1 calls valid
ValidInputs ==
    /\ IsLetterName(name)
    /\ IsLetterName(surname)
    /\ sex \in SEXES
    /\ IsGregorianDate(birth_date)
    /\ IsLocationCode(birth_nation.nation_code)
    /\ IsLocationCode(birth_city.city_code)

\* a number below 100 in two decimal digits
TwoDigits(n) == << DIGITS[(n \div 10) + 1], DIGITS[(n % 10) + 1] >>

(***************************************************************************)
(* C1, as stated: for all valid inputs (ASCII-letter name and surname,     *)
(* sex, a real Gregorian birth date, nation and city with 4-character      *)
(* uppercase alphanumeric codes) generate_code returns exactly 16          *)
(* characters, each an uppercase ASCII letter or a digit.                  *)
(***************************************************************************)
C1_AllValidInputsGive16 ==
    (pc # "start" /\ ValidInputs) => (Len(code) = 16 /\ AllUpperAlnum(code))

(***************************************************************************)
(* C1, amended: for all valid inputs whose birth year is written with      *)
(* exactly four characters (1000..9999, and -999..-100 with its sign),     *)
(* generate_code returns exactly 16 characters, each an uppercase ASCII    *)
(* letter or a digit.                                                      *)
(***************************************************************************)
C1_FourCharacterYearGives16 ==
    (/\ pc # "start"
     /\ ValidInputs
     /\ birth_date.year \in (1000..9999) \cup ((0 - 999)..(0 - 100)))
        => (Len(code) = 16 /\ AllUpperAlnum(code))

C1_Witness ==
    /\ Generated
    /\ ValidInputs
    /\ birth_date.year = 9999
    /\ birth_date.day = 1
    /\ sex = "M"
    /\ Len(code) = 16

(***************************************************************************)
(* C2: for any code produced by generate_code, the control character       *)
(* recomputed over its first 15 characters is its 16th character.          *)
(***************************************************************************)
C2_ChecksumValid ==
    Generated =>
        /\ Len(code) = 16
        /\ get_control_character(SubSeq(code, 1, 15)) = << code[16] >>

C2_Witness ==
    /\ Generated
    /\ sex = "M"
    /\ birth_date.day = 9
    /\ get_control_character(SubSeq(code, 1, 15)) = << code[16] >>

(***************************************************************************)
(* C8: characters [11:15) of the generated code are the city's code when   *)
(* the nation's code is "0000", and the nation's code otherwise.           *)
(***************************************************************************)
C8_LocationSelection ==
    Generated =>
        /\ birth_nation.nation_code = << "0", "0", "0", "0" >>
              => SubSeq(code, 12, 15) = birth_city.city_code
        /\ birth_nation.nation_code # << "0", "0", "0", "0" >>
              => SubSeq(code, 12, 15) = birth_nation.nation_code

C8_Witness ==
    /\ Generated
    /\ birth_nation.nation_code # << "0", "0", "0", "0" >>
    /\ birth_city.city_code # birth_nation.nation_code
    /\ SubSeq(code, 12, 15) = birth_nation.nation_code

(***************************************************************************)
(* C9: for the same name, surname, birth date and location, the day        *)
(* fragment [9:11) of the Male code is the day of the month in two digits, *)
(* that of the Female code is the day plus 40, and the characters [0:9)    *)
(* and [11:15) of the two codes are equal.                                 *)
(***************************************************************************)
C9_SexOffset ==
    Generated =>
        LET male == generate_code(name, surname, "M", birth_nation, birth_city, birth_date)
            female == generate_code(name, surname, "F", birth_nation, birth_city, birth_date)
        IN  /\ code = (IF sex = "M" THEN male ELSE female)
            /\ SubSeq(male, 10, 11) = TwoDigits(birth_date.day)
            /\ SubSeq(female, 10, 11) = TwoDigits(birth_date.day + 40)
            /\ SubSeq(male, 1, 9) = SubSeq(female, 1, 9)
            /\ SubSeq(male, 12, 15) = SubSeq(female, 12, 15)

C9_Witness ==
    /\ Generated
    /\ sex = "F"
    /\ birth_date.day = 9
    /\ SubSeq(code, 10, 11) = << "4", "9" >>

(***************************************************************************)
(* The homocodic transform: what its claims speak of.                      *)
(***************************************************************************)
Depth == Unwrap(substitution_depth)

\* generate_homocodic_from_code has returned or panicked
Transformed == pc # "start" /\ substitution_depth # None /\ code # NoText

DigitPositions(text) == { i \in DOMAIN text : text[i] \in Range(DIGITS) }

DigitCount(text) == Cardinality(DigitPositions(text))

\* the positions of the k rightmost digits of the text (all, when it has fewer)
RightmostDigits(text, k) ==
    { i \in DigitPositions(text) :
        Cardinality({ j \in DigitPositions(text) : j > i }) < k }

\* 0->L, 1->M, 2->N, 3->P, 4->Q, 5->R, 6->S, 7->T, 8->U, 9->V
HomocodicLetter(c) ==
    << "L", "M", "N", "P", "Q", "R", "S", "T", "U", "V" >>
        [(CHOOSE i \in DOMAIN DIGITS : DIGITS[i] = c)]

\* a payload of 15 uppercase letters and digits followed by its control character
IsFiscalCode(text) ==
    /\ Len(text) = 16
    /\ AllUpperAlnum(SubSeq(text, 1, 15))
    /\ get_control_character(SubSeq(text, 1, 15)) = << text[16] >>

(***************************************************************************)
(* C3: depth 0 is a no-op: for every 16-character fiscal code (15          *)
(* uppercase letters and digits followed by their control character),      *)
(* generate_homocodic_from_code(code, 0) = code.                           *)
(***************************************************************************)
C3_DepthZeroNoOp ==
    (Transformed /\ Depth = 0 /\ IsFiscalCode(code))
        => (pc = "done" /\ homocodic_code = code)

C3_Witness ==
    /\ Transformed
    /\ Depth = 0
    /\ IsFiscalCode(code)
    /\ DigitCount(code) > 0
    /\ homocodic_code = code

(***************************************************************************)
(* C4: saturation: for every 16-character code whose 15-character payload  *)
(* has n digits and every depth d > n, generate_homocodic_from_code(code,  *)
(* d) returns without error and equals generate_homocodic_from_code(code,  *)
(* n).                                                                     *)
(***************************************************************************)
C4_Saturation ==
    (/\ Transformed
     /\ Len(code) = 16
     /\ AllUpperAlnum(SubSeq(code, 1, 15))
     /\ Depth > DigitCount(SubSeq(code, 1, 15)))
        => /\ pc = "done"
           /\ homocodic_code =
                 generate_homocodic_from_code(code, DigitCount(SubSeq(code, 1, 15)))

C4_Witness ==
    /\ Transformed
    /\ Len(code) = 16
    /\ AllUpperAlnum(SubSeq(code, 1, 15))
    /\ DigitCount(SubSeq(code, 1, 15)) = 2
    /\ Depth = 4
    /\ pc = "done"
    /\ DigitCount(homocodic_code) = 0

(***************************************************************************)
(* C5: generate_homocodic_from_code rejects every input that is not        *)
(* exactly 16 characters long or that holds a character other than an      *)
(* uppercase letter or a digit: it never returns a code for such an input. *)
(***************************************************************************)
C5_MalformedRejected ==
    (Transformed /\ (Len(code) # 16 \/ ~ AllUpperAlnum(code)))
        => (pc = "panicked" /\ homocodic_code = NoText)

(***************************************************************************)
(* C10: for every 15-character payload with n digits and every depth d,    *)
(* the transformed payload has the same length and differs from the input  *)
(* exactly at the min(d, n) rightmost digit positions, each of which holds *)
(* the homocodic letter of the digit it replaces; every other character,   *)
(* digit or not, is unchanged.                                             *)
(***************************************************************************)
C10_HomocodicSubstitution ==
    (Transformed /\ Len(without_index_15(code)) = 15)
        => LET payload == without_index_15(code)
               result == generate_homocodic_preliminary_code(payload, Depth)
               replaced == RightmostDigits(payload, Depth)
           IN  /\ Len(result) = 15
               /\ Cardinality(replaced) =
                     (IF Depth < DigitCount(payload) THEN Depth ELSE DigitCount(payload))
               /\ \A i \in 1..15 :
                     IF i \in replaced
                     THEN result[i] = HomocodicLetter(payload[i]) /\ result[i] # payload[i]
                     ELSE result[i] = payload[i]

C10_Witness ==
    /\ Transformed
    /\ pc = "done"
    /\ Len(code) = 16
    /\ DigitCount(SubSeq(code, 1, 15)) = 6
    /\ Depth = 2
    /\ code[15] \notin Range(DIGITS)
    /\ code[13] \in Range(DIGITS)
    /\ code[14] \in Range(DIGITS)
    /\ SubSeq(homocodic_code, 1, 12) = SubSeq(code, 1, 12)
    /\ DigitCount(SubSeq(homocodic_code, 13, 15)) = 0

(***************************************************************************)
(* The name and surname encoders: what their claims speak of.              *)
(***************************************************************************)
NameReturned == pc \in { "name_done", "name_panicked" }

SurnameReturned == pc \in { "surname_done", "surname_panicked" }

IsVowelLetter(c) == c \in { "a", "e", "i", "o", "u", "A", "E", "I", "O", "U" }

IsOtherCharacter(c) == ~ IsVowelLetter(c)

ConsonantsOf(text) == SelectSeq(text, IsOtherCharacter)

VowelsOf(text) == SelectSeq(text, IsVowelLetter)

Uppercased(text) == [i \in DOMAIN text |-> to_ascii_uppercase(text[i])]

(***************************************************************************)
(* C6: for every non-empty ASCII-letter name, extract_name_letters gives,  *)
(* when the name has more than 3 consonants, its 1st, 3rd and 4th          *)
(* consonants uppercased; otherwise the first 3 characters of its          *)
(* consonants followed by its vowels, padded with X to 3 characters,       *)
(* uppercased.                                                             *)
(***************************************************************************)
C6_NameRule ==
    (NameReturned /\ IsLetterName(name))
        => /\ pc = "name_done"
           /\ LET consonants == ConsonantsOf(name)
              IN  IF Len(consonants) > 3
                  THEN fragment =
                          Uppercased(<< consonants[1], consonants[3], consonants[4] >>)
                  ELSE fragment =
                          Uppercased(SubSeq(consonants \o VowelsOf(name)
                                                \o << "X", "X", "X" >>, 1, 3))

C6_Witness ==
    /\ pc = "name_done"
    /\ IsLetterName(name)
    /\ Len(ConsonantsOf(name)) = 4
    /\ Len(VowelsOf(name)) = 1
    /\ ConsonantsOf(name)[2] # ConsonantsOf(name)[3]
    /\ ConsonantsOf(name)[2] # ConsonantsOf(name)[4]
    /\ Len(fragment) = 3

(***************************************************************************)
(* C7, as stated: name and surname encoding fails whenever the text has no *)
(* letter at all, the empty text and the non-empty texts made only of      *)
(* non-letters alike.                                                      *)
(***************************************************************************)
C7_NoLetterFails ==
    /\ (NameReturned /\ \A i \in DOMAIN name : ~ IsAsciiLetter(name[i]))
          => pc = "name_panicked"
    /\ (SurnameReturned /\ \A i \in DOMAIN surname : ~ IsAsciiLetter(surname[i]))
          => pc = "surname_panicked"

(***************************************************************************)
(* C7, amended: name and surname encoding fails whenever the text is       *)
(* empty; a non-empty text made only of non-letters does not fail, its     *)
(* characters count as consonants and a fragment of 3 characters is        *)
(* produced.                                                               *)
(***************************************************************************)
C7_EmptyFails ==
    /\ (NameReturned /\ name = NoText) => pc = "name_panicked"
    /\ (SurnameReturned /\ surname = NoText) => pc = "surname_panicked"
    /\ (NameReturned /\ name # NoText
            /\ \A i \in DOMAIN name : ~ IsAsciiLetter(name[i]))
          => (pc = "name_done" /\ Len(fragment) = 3)
    /\ (SurnameReturned /\ surname # NoText
            /\ \A i \in DOMAIN surname : ~ IsAsciiLetter(surname[i]))
          => (pc = "surname_done" /\ Len(fragment) = 3)

C7_Witness ==
    /\ pc = "surname_panicked"
    /\ surname = NoText
    /\ fragment = NoText

(***************************************************************************)
(* The control character: the tables as C11 states them.                   *)
(***************************************************************************)
OddValuesOfDigits == << 1, 0, 5, 7, 9, 13, 15, 17, 19, 21 >>

OddValuesOfLetters ==
    << 1, 0, 5, 7, 9, 13, 15, 17, 19, 21, 2, 4, 18, 20, 11, 3, 6, 8, 12, 14,
       16, 10, 22, 25, 24, 23 >>

PositionIn(s, c) == CHOOSE i \in DOMAIN s : s[i] = c

\* the value of character c at the 0-based index k of a payload
ClaimedValue(c, k) ==
    IF k % 2 = 0
    THEN (IF c \in Range(DIGITS)
          THEN OddValuesOfDigits[PositionIn(DIGITS, c)]
          ELSE OddValuesOfLetters[PositionIn(ALPHABET_VEC, c)])
    ELSE (IF c \in Range(DIGITS)
          THEN PositionIn(DIGITS, c) - 1
          ELSE PositionIn(ALPHABET_VEC, c) - 1)

RECURSIVE ClaimedSum(_, _)
ClaimedSum(text, k) ==
    IF k >= Len(text) THEN 0
    ELSE ClaimedValue(text[k + 1], k) + ClaimedSum(text, k + 1)

ClaimedControl(text) == << ALPHABET_VEC[(ClaimedSum(text, 0) % 26) + 1] >>

(***************************************************************************)
(* C11: for every 15-character text of uppercase letters and digits,       *)
(* get_control_character returns, without error, the letter at alphabet    *)
(* index S mod 26, S being the sum of the ODD-table values of the          *)
(* characters at the even 0-based indices and of the EVEN-table values of  *)
(* those at the odd 0-based indices.                                       *)
(***************************************************************************)
C11_ControlCharacter ==
    /\ (/\ Transformed
        /\ Len(without_index_15(code)) = 15
        /\ AllUpperAlnum(without_index_15(code)))
          => get_control_character(without_index_15(code))
                = ClaimedControl(without_index_15(code))
    /\ (/\ Transformed
        /\ pc = "done"
        /\ Len(homocodic_code) = 16
        /\ AllUpperAlnum(SubSeq(homocodic_code, 1, 15)))
          => << homocodic_code[16] >> = ClaimedControl(SubSeq(homocodic_code, 1, 15))

C11_Witness ==
    /\ Transformed
    /\ pc = "done"
    /\ Len(code) = 16
    /\ AllUpperAlnum(SubSeq(code, 1, 15))
    /\ code[8] \in Range(DIGITS)
    /\ code[15] \in Range(DIGITS)
    /\ Depth = 1
    /\ << code[16] >> = ClaimedControl(SubSeq(code, 1, 15))
    /\ << homocodic_code[16] >> = ClaimedControl(SubSeq(homocodic_code, 1, 15))
    /\ homocodic_code[16] # code[16]

(***************************************************************************)
(* C12: depths compose additively: for every 16-character code of          *)
(* uppercase letters and digits and all depths a, b >= 0,                  *)
(* generate_homocodic_from_code(generate_homocodic_from_code(code, a), b)  *)
(* = generate_homocodic_from_code(code, a + b); the result never depends   *)
(* on the 16th character of the input, and its own 16th character is the   *)
(* control character of its first 15.                                      *)
(***************************************************************************)
C12_DepthsCompose ==
    (Transformed /\ Len(code) = 16 /\ AllUpperAlnum(code))
        => /\ pc = "done"
           /\ \A b \in 0..MaxDepth :
                 generate_homocodic_from_code(homocodic_code, b)
                    = generate_homocodic_from_code(code, Depth + b)
           /\ \A c \in { "A", "Z", "0", "9" } :
                 generate_homocodic_from_code([code EXCEPT ![16] = c], Depth)
                    = homocodic_code
           /\ Len(homocodic_code) = 16
           /\ get_control_character(SubSeq(homocodic_code, 1, 15))
                 = << homocodic_code[16] >>

C12_Witness ==
    /\ Transformed
    /\ pc = "done"
    /\ Len(code) = 16
    /\ AllUpperAlnum(code)
    /\ DigitCount(SubSeq(code, 1, 15)) = 6
    /\ Depth = 2
    /\ << code[16] >> # get_control_character(SubSeq(code, 1, 15))
    /\ generate_homocodic_from_code(homocodic_code, 3)
          = generate_homocodic_from_code(code, 5)
    /\ DigitCount(generate_homocodic_from_code(homocodic_code, 3)) = 1

====
